---------------------------- MODULE Spec2Model ----------------------------
(***************************************************************************)
(* A model of instakit's tone-curve engine:                                *)
(*   instakit/processors/curves.py  (SingleCurve, CurveSet, the ACV codec) *)
(*   instakit/utils/mode.py         (Mode.of, Mode.process, Mode.merge)    *)
(*                                                                         *)
(* Files are byte sequences; struct.pack/unpack("!h") are computed on      *)
(* bytes.  A scipy delegate is the record of what it was built from (its   *)
(* kind and its copy of the points); its value at v is the term            *)
(* [f |-> delegate, at |-> v], and whether a call raises is computed.      *)
(***************************************************************************)
EXTENDS Integers, Sequences, FiniteSets, TLC

VARIABLES
    fs,        \* the file at the CurveSet's path: [exists, data (bytes)]
    cs,        \* the CurveSet object: [count, curves, mode]
    op,        \* the last operation performed
    outcome,   \* "ok", or the exception the last operation raised
    written,   \* the point lists of the last write_acv that opened the file
    whole,     \* SpecDecode: the file before it was cut short
    image,     \* the operand of the last process(...) call
    result,    \* the image the last process(...) call returned
    calls,     \* the indices of self.curves the last process(...) consulted
    curve,     \* SpecCurve: one SingleCurve object
    call       \* SpecCurve: the last __call__: what it used and returned

vars == <<fs, cs, op, outcome, written, whole, image, result, calls, curve, call>>

----------------------------------------------------------------------------
(* Bounds of the model *)

MaxCurves == 2

MaxSet == 4

MaxPts == 3

----------------------------------------------------------------------------
(* struct.pack / struct.unpack with format "!h": big-endian signed 16 bit *)

Int16 == -32768..32767

Pack16(v) ==
    LET u == v % 65536 IN << u \div 256, u % 256 >>

Unpack16(hi, lo) ==
    LET u == hi * 256 + lo IN IF u >= 32768 THEN u - 65536 ELSE u

\* acv_file.read(n): at most n bytes from the current position
FileRead(data, pos, n) ==
    SubSeq(data, pos + 1, IF pos + n <= Len(data) THEN pos + n ELSE Len(data))

----------------------------------------------------------------------------
(* InterpolateMode and SingleCurve *)

InterpolateModes ==
    << "LINEAR", "NEAREST", "ZERO", "SLINEAR", "QUADRATIC", "CUBIC",
       "PREVIOUS", "NEXT", "LAGRANGE" >>

interpolate_mode_strings ==
    << "linear", "nearest", "zero", "slinear", "quadratic", "cubic",
       "previous", "next", "lagrange" >>

\* InterpolateMode.to_string: interpolate_mode_strings[self.value]
to_string(mode) ==
    interpolate_mode_strings[CHOOSE i \in 1..Len(InterpolateModes) : InterpolateModes[i] = mode]

NoDelegate == [built |-> FALSE, kind |-> "", pts |-> << >>]

\* SingleCurve(name, points): no delegate attribute until interpolate() ran
SingleCurve(name, pts) == [name |-> name, pts |-> pts, delegate |-> NoDelegate]

Xs(pts) == { pts[i][1] : i \in 1..Len(pts) }

MinX(pts) == CHOOSE x \in Xs(pts) : \A z \in Xs(pts) : x <= z

MaxX(pts) == CHOOSE x \in Xs(pts) : \A z \in Xs(pts) : x >= z

\* scipy.interpolate.interp1d(x, y, kind=kind) as interpolate() calls it:
\* the number of entries each kind needs, and the spline kinds of order
\* two and three refusing repeated x.
interp1d_min_entries(kind) ==
    CASE kind = "zero" -> 1
      [] kind = "quadratic" -> 3
      [] kind = "cubic" -> 4
      [] OTHER -> 2

interp1d_raises(kind, pts) ==
    \/ Len(pts) < interp1d_min_entries(kind)
    \/ kind \in {"quadratic", "cubic"} /\ Cardinality(Xs(pts)) < Len(pts)

\* SingleCurve.interpolate(mode): [err, curve]
interpolate(c, mode) ==
    IF Len(c.pts) = 0
      THEN [err |-> "IndexError", curve |-> c]           \* xy.T[0] of an empty array
      ELSE IF mode \in {"LAGRANGE", "None"}
        THEN [err |-> "ok",
              curve |-> [c EXCEPT !.delegate =
                            [built |-> TRUE, kind |-> "lagrange", pts |-> c.pts]]]
        ELSE IF interp1d_raises(to_string(mode), c.pts)
          THEN [err |-> "ValueError", curve |-> c]
          ELSE [err |-> "ok",
                curve |-> [c EXCEPT !.delegate =
                              [built |-> TRUE, kind |-> to_string(mode), pts |-> c.pts]]]

\* delegate(value) raises: interp1d is built with the default bounds_error,
\* so a value outside [min(x), max(x)] raises; a lagrange poly1d never does.
delegate_raises(d, v) ==
    /\ d.kind # "lagrange"
    /\ (v < MinX(d.pts) \/ v > MaxX(d.pts))

\* SingleCurve.__call__(value): [err, val, curve]
Call(c, v) ==
    LET b == IF c.delegate.built THEN [err |-> "ok", curve |-> c]
                                 ELSE interpolate(c, "LAGRANGE")
    IN  IF b.err # "ok"
          THEN [err |-> b.err, val |-> NoDelegate, at |-> v, curve |-> b.curve]
          ELSE IF delegate_raises(b.curve.delegate, v)
            THEN [err |-> "ValueError", val |-> NoDelegate, at |-> v, curve |-> b.curve]
            ELSE [err |-> "ok", val |-> b.curve.delegate, at |-> v, curve |-> b.curve]

----------------------------------------------------------------------------
(* CurveSet: construction and the ACV codec *)

channels == << "composite", "red", "green", "blue" >>

\* CurveSet.channel_name(idx), idx counted from 0
channel_name(idx) ==
    IF idx < Len(channels) THEN channels[idx + 1] ELSE "channel" \o ToString(idx)

NoFile == [exists |-> FALSE, data |-> << >>]

\* CurveSet.__init__ before it looks at the file
NewCurveSet(mode) == [count |-> 0, curves |-> << >>, mode |-> mode]

RECURSIVE ReadPointsLenient(_, _, _, _)
\* a reading loop that stops at the end of the file instead of failing
ReadPointsLenient(data, pos, n, acc) ==
    IF n <= 0 \/ Len(FileRead(data, pos, 4)) # 4
      THEN [err |-> "ok", pos |-> pos, pts |-> acc]
      ELSE LET chunk == FileRead(data, pos, 4)
               y == Unpack16(chunk[1], chunk[2])
               x == Unpack16(chunk[3], chunk[4])
           IN  ReadPointsLenient(data, pos + 4, n - 1, Append(acc, << x, y >>))

RECURSIVE ReadPoints(_, _, _, _)
\* the loop of read_one_curve: n times unpack("!hh", read(4)) as (y, x)
ReadPoints(data, pos, n, acc) ==
    IF n <= 0
      THEN [err |-> "ok", pos |-> pos, pts |-> acc]
      ELSE LET chunk == FileRead(data, pos, 4) IN
           IF Len(chunk) # 4
             THEN [err |-> "StructError", pos |-> pos + Len(chunk), pts |-> acc]
             ELSE LET y == Unpack16(chunk[1], chunk[2])
                      x == Unpack16(chunk[3], chunk[4])
                  IN  ReadPoints(data, pos + 4, n - 1, Append(acc, << x, y >>))

\* CurveSet.read_one_curve(acv_file, name, interpolation_mode): [err, pos, curve]
read_one_curve(data, pos, name, mode) ==
    LET chunk == FileRead(data, pos, 2) IN
    IF Len(chunk) # 2
      THEN [err |-> "StructError", pos |-> pos + Len(chunk), curve |-> SingleCurve(name, << >>)]
      ELSE LET n == Unpack16(chunk[1], chunk[2])
               r == ReadPoints(data, pos + 2, n, << >>)
           IN  IF r.err # "ok"
                 THEN [err |-> r.err, pos |-> r.pos, curve |-> SingleCurve(name, r.pts)]
                 ELSE LET b == interpolate(SingleCurve(name, r.pts), mode)
                      IN  [err |-> b.err, pos |-> r.pos, curve |-> b.curve]

RECURSIVE ReadCurves(_, _, _, _, _, _)
\* the loop of read_acv: for idx in range(self.count): self.curves.append(...)
ReadCurves(data, pos, idx, count, curves, mode) ==
    IF idx >= count
      THEN [err |-> "ok", curves |-> curves]
      ELSE LET r == read_one_curve(data, pos, channel_name(idx), mode) IN
           IF r.err # "ok"
             THEN [err |-> r.err, curves |-> curves]
             ELSE ReadCurves(data, r.pos, idx + 1, count, Append(curves, r.curve), mode)

\* CurveSet.read_acv(acv_path, interpolation_mode) on object s: [err, cs]
read_acv(s, file, mode) ==
    IF ~file.exists
      THEN [err |-> "IOError", cs |-> s]
      ELSE LET chunk == FileRead(file.data, 0, 4) IN
           IF Len(chunk) # 4
             THEN [err |-> "StructError", cs |-> s]
             ELSE LET count == Unpack16(chunk[3], chunk[4])
                      r == ReadCurves(file.data, 4, 0, count, s.curves, mode)
                  IN  [err |-> r.err,
                       cs |-> [s EXCEPT !.count = count, !.curves = r.curves]]

\* CurveSet.write_one_curve(acv_file, curve): [err, data]
RECURSIVE WritePoints(_, _, _)
WritePoints(data, pts, idx) ==
    IF idx > Len(pts)
      THEN [err |-> "ok", data |-> data]
      ELSE LET x == pts[idx][1]
               y == pts[idx][2]
           IN  IF x \notin Int16 \/ y \notin Int16
                 THEN [err |-> "StructError", data |-> data]
                 ELSE WritePoints(data \o Pack16(y) \o Pack16(x), pts, idx + 1)

write_one_curve(data, c) ==
    IF Len(c.pts) \notin Int16
      THEN [err |-> "StructError", data |-> data]
      ELSE WritePoints(data \o Pack16(Len(c.pts)), c.pts, 1)

RECURSIVE WriteCurves(_, _, _)
\* the loop of write_acv: for curve in self.curves
WriteCurves(data, curves, i) ==
    IF i > Len(curves)
      THEN [err |-> "ok", data |-> data]
      ELSE LET w == write_one_curve(data, curves[i]) IN
           IF w.err # "ok" THEN w ELSE WriteCurves(w.data, curves, i + 1)

\* a guard that lets a count of 0 through
IsEmptySetBelowZero(count) == count < 0

\* the guard of write_acv: if self.count < 1: raise ValueError
IsEmptySet(count) == count < 1

\* CurveSet.write_acv(acv_path) on object s: [err, file]
write_acv(s, file) ==
    IF IsEmptySet(s.count)
      THEN [err |-> "ValueError", file |-> file]
      ELSE \* open(acv_path, "wb") creates or truncates the file
           IF s.count \notin Int16
             THEN [err |-> "StructError", file |-> [exists |-> TRUE, data |-> << >>]]
             ELSE LET w == WriteCurves(Pack16(0) \o Pack16(s.count), s.curves, 1)
                  IN  [err |-> w.err, file |-> [exists |-> TRUE, data |-> w.data]]

PointsOf(curves) == [i \in 1..Len(curves) |-> curves[i].pts]


\* CurveSet.add(curve)
add(s, c) ==
    [s EXCEPT !.curves = Append(s.curves, c), !.count = Len(s.curves) + 1]

\* CurveSet(path, interpolation_mode): [err, cs]; the file is read if it exists
construct(file, mode) ==
    IF file.exists THEN read_acv(NewCurveSet(mode), file, mode)
                   ELSE [err |-> "ok", cs |-> NewCurveSet(mode)]

----------------------------------------------------------------------------
(* Mode (utils/mode.py) and the imaging operations process() relies on.   *)
(* An image is [mode |-> PIL mode string, bands |-> one pixel list a band] *)

image_mode_strings ==
    << "1", "L", "I", "F", "P", "RGB", "RGBX", "RGBA", "CMYK", "YCbCr",
       "LAB", "HSV", "RGBa", "LA", "La", "PA", "I;16", "I;16L", "I;16B" >>

\* the members of Mode in definition order; auto() gives member number k
\* the descriptor of image_mode_strings[k]
ModeMembers ==
    << "MONO", "L", "I", "F", "P", "RGB", "RGBX", "RGBA", "CMYK", "YCbCr",
       "LAB", "HSV", "RGBa", "LA", "La", "PA", "I16", "I16L", "I16B" >>

\* Mode.to_string
mode_to_string(m) ==
    image_mode_strings[CHOOSE i \in 1..Len(ModeMembers) : ModeMembers[i] = m]

\* Mode.check(image): imode(image) is self.value
check(m, img) == img.mode = mode_to_string(m)

\* Mode.of(image): the first member whose check passes
ModeOf(img) ==
    ModeMembers[CHOOSE i \in 1..Len(ModeMembers) :
                   /\ check(ModeMembers[i], img)
                   /\ \A j \in 1..(i - 1) : ~check(ModeMembers[j], img)]

valid_modes == { "RGB", "MONO", "L" }

Clip8(v) == IF v < 0 THEN 0 ELSE IF v > 255 THEN 255 ELSE v

\* image.convert(target) for the modes of the model's images
convert(img, target) ==
    CASE target = "L" /\ img.mode = "1" ->
           [mode |-> "L", bands |-> img.bands]
      [] target = "RGB" /\ img.mode \in {"1", "L", "LA"} ->
           [mode |-> "RGB", bands |-> << img.bands[1], img.bands[1], img.bands[1] >>]
      [] target = "RGB" /\ img.mode \in {"RGBA", "RGBX"} ->
           [mode |-> "RGB", bands |-> SubSeq(img.bands, 1, 3)]
      [] target = "RGB" /\ img.mode = "I" ->
           LET b == [k \in 1..Len(img.bands[1]) |-> Clip8(img.bands[1][k])]
           IN  [mode |-> "RGB", bands |-> << b, b, b >>]

\* Mode.process(image)
mode_process(m, img) ==
    IF check(m, img) THEN img ELSE convert(img, mode_to_string(m))

\* Mode.merge(*channels)
merge(m, chans) == [mode |-> mode_to_string(m), bands |-> chans]

\* Image.eval(band, f) with f the curve c: the table [f(i) for i in range(256)]
\* is built first, then every pixel is looked up in it. [err, band, curve]
image_eval(band, c) ==
    LET first == Call(c, 0)              \* the first call builds a missing delegate
        d     == first.curve.delegate    \* and every later call uses that delegate
    IN  IF first.err = "IndexError"
          THEN [err |-> "IndexError", band |-> << >>, curve |-> first.curve]
          ELSE IF \E i \in 0..255 : delegate_raises(d, i)
            THEN [err |-> "ValueError", band |-> << >>, curve |-> first.curve]
            ELSE [err |-> "ok",
                  band |-> [k \in 1..Len(band) |->
                              LET r == Call(first.curve, band[k])
                              IN  [f |-> r.val, at |-> r.at]],
                  curve |-> first.curve]

\* channel idx routed through curves[idx]
CurveIndexForSame(idx) == idx

\* the index into self.curves used for channel idx in process(): idx+1
CurveIndexFor(idx) == idx + 1

\* a single-channel image routed through curves[1]
GrayCurveIndexRed == 0 + 1

\* the index into self.curves used for a single-channel image: 0
GrayCurveIndex == 0

NoImage == [mode |-> "", bands |-> << >>]

RECURSIVE ProcessChannels(_, _, _, _, _)
\* the loop of process(): for idx, channel in enumerate(image.split())
ProcessChannels(bands, idx, curves, out, used) ==
    IF idx >= Len(bands)
      THEN [err |-> "ok", result |-> merge("RGB", out), curves |-> curves, calls |-> used]
      ELSE LET ci == CurveIndexFor(idx) IN
           IF ci >= Len(curves)
             THEN [err |-> "IndexError", result |-> NoImage, curves |-> curves, calls |-> used]
             ELSE LET e  == image_eval(bands[idx + 1], curves[ci + 1])
                      cv == [curves EXCEPT ![ci + 1] = e.curve]
                  IN  IF e.err # "ok"
                        THEN [err |-> e.err, result |-> NoImage, curves |-> cv,
                              calls |-> Append(used, ci)]
                        ELSE ProcessChannels(bands, idx + 1, cv,
                                             Append(out, e.band), Append(used, ci))

\* CurveSet.process(image): [err, result, curves, calls]
process(s, img) ==
    LET mode == ModeOf(img) IN
    IF mode \in valid_modes /\ mode # "RGB"
      THEN IF GrayCurveIndex >= Len(s.curves)
             THEN [err |-> "IndexError", result |-> NoImage, curves |-> s.curves,
                   calls |-> << >>]
             ELSE LET e == image_eval(mode_process("L", img).bands[1],
                                      s.curves[GrayCurveIndex + 1])
                  IN  [err |-> e.err,
                       result |-> IF e.err = "ok" THEN [mode |-> "L", bands |-> << e.band >>]
                                                  ELSE NoImage,
                       curves |-> [s.curves EXCEPT ![GrayCurveIndex + 1] = e.curve],
                       calls |-> << GrayCurveIndex >>]
      ELSE ProcessChannels((IF mode \in valid_modes THEN img
                                                    ELSE mode_process("RGB", img)).bands,
                           0, s.curves, << >>, << >>)

----------------------------------------------------------------------------
(* The inputs the specifications draw from *)

\* an identity curve, a three-point curve whose bytes differ in both halves,
\* and a curve with an x that no signed 16-bit field holds
CurveA == SingleCurve("a", << << 0, 0 >>, << 255, 255 >> >>)

CurveB == SingleCurve("b", << << 0, -2 >>, << 128, 300 >>, << 255, -32768 >> >>)

CurveC == SingleCurve("c", << << 0, 0 >>, << 40000, 255 >> >>)

CodecPool == { CurveA, CurveB, CurveC }

CodecModes == { "None", "LINEAR", "CUBIC" }

\* a valid ACV file that declares no curves
EmptyAcv == [exists |-> TRUE, data |-> Pack16(0) \o Pack16(0)]

GrayImage == [mode |-> "L", bands |-> << << 128 >> >>]

MonoImage == [mode |-> "1", bands |-> << << 255 >> >>]

IntImage == [mode |-> "I", bands |-> << << 300 >> >>]

GrayAlphaImage == [mode |-> "LA", bands |-> << << 10 >>, << 77 >> >>]

RgbImage == [mode |-> "RGB", bands |-> << << 10 >>, << 20 >>, << 30 >> >>]

RgbaImage == [mode |-> "RGBA", bands |-> << << 10 >>, << 20 >>, << 30 >>, << 99 >> >>]

CodecImages == { GrayImage, RgbImage }

NothingWritten == [valid |-> FALSE, count |-> 0, curves |-> << >>]

NoCall == [done |-> FALSE, err |-> "", used |-> NoDelegate, at |-> 0, pts |-> << >>]

\* the count the header of the file declares (0 when there is no header)
DeclaredCount(file) ==
    IF file.exists /\ Len(file.data) >= 4
      THEN Unpack16(file.data[3], file.data[4]) ELSE 0

----------------------------------------------------------------------------
(* Spec: one CurveSet and the file at its path *)

Init ==
    /\ fs \in { NoFile, EmptyAcv }
    /\ \E m \in CodecModes : cs = construct(fs, m).cs
    /\ op = "init"
    /\ outcome = "ok"
    /\ written = NothingWritten
    /\ whole = << >>
    /\ image = NoImage
    /\ result = NoImage
    /\ calls = << >>
    /\ curve = SingleCurve("", << >>)
    /\ call = NoCall

\* curveset.add(c), while the set holds fewer than max curves
Add(c, max) ==
    /\ Len(cs.curves) < max
    /\ cs' = add(cs, c)
    /\ op' = "add"
    /\ outcome' = "ok"
    /\ image' = NoImage
    /\ result' = NoImage
    /\ calls' = << >>
    /\ UNCHANGED << fs, written, whole, curve, call >>

\* curveset.write_acv(curveset.path)
WriteAcv ==
    LET w == write_acv(cs, fs) IN
    /\ fs' = w.file
    /\ op' = "write"
    /\ outcome' = w.err
    /\ written' = IF w.err = "ValueError" THEN written
                  ELSE [valid |-> w.err = "ok", count |-> cs.count,
                        curves |-> PointsOf(cs.curves)]
    /\ image' = NoImage
    /\ result' = NoImage
    /\ calls' = << >>
    /\ UNCHANGED << cs, whole, curve, call >>

\* curveset.read_acv(curveset.path, curveset.interpolation_mode)
ReadAcv ==
    LET r == read_acv(cs, fs, cs.mode) IN
    /\ Len(cs.curves) + DeclaredCount(fs) <= MaxCurves
    /\ cs' = r.cs
    /\ op' = "read"
    /\ outcome' = r.err
    /\ image' = NoImage
    /\ result' = NoImage
    /\ calls' = << >>
    /\ UNCHANGED << fs, written, whole, curve, call >>

\* curveset = CurveSet(path, m); when the constructor raises, the name
\* stays bound to the object it held
Construct(m) ==
    LET r == construct(fs, m) IN
    /\ cs' = IF r.err = "ok" THEN r.cs ELSE cs
    /\ op' = "construct"
    /\ outcome' = r.err
    /\ image' = NoImage
    /\ result' = NoImage
    /\ calls' = << >>
    /\ UNCHANGED << fs, written, whole, curve, call >>

\* curveset.process(img)
Process(img) ==
    LET p == process(cs, img) IN
    /\ cs' = [cs EXCEPT !.curves = p.curves]
    /\ op' = "process"
    /\ outcome' = p.err
    /\ image' = img
    /\ result' = p.result
    /\ calls' = p.calls
    /\ UNCHANGED << fs, written, whole, curve, call >>

AddStep == \E c \in CodecPool : Add(c, MaxCurves)

ConstructStep == \E m \in CodecModes : Construct(m)

ProcessStep == \E img \in CodecImages : Process(img)

Next == AddStep \/ WriteAcv \/ ReadAcv \/ ConstructStep \/ ProcessStep

Spec == Init /\ [][Next]_vars

----------------------------------------------------------------------------
(* SpecDecode: read_acv on a fresh CurveSet whose file was cut short at    *)
(* any position by whatever wrote it                                       *)

DecodePool == { CurveA, CurveB }

DecodeSets == UNION { [1..k -> DecodePool] : k \in 1..MaxCurves }

Encoding(curves) ==
    write_acv([count |-> Len(curves), curves |-> curves, mode |-> "None"], NoFile).file.data

InitDecode ==
    /\ \E set \in DecodeSets : \E n \in 0..Len(Encoding(set)) :
          /\ whole = Encoding(set)
          /\ fs = [exists |-> TRUE, data |-> SubSeq(Encoding(set), 1, n)]
    /\ \E m \in CodecModes : cs = NewCurveSet(m)
    /\ op = "init"
    /\ outcome = "ok"
    /\ written = NothingWritten
    /\ image = NoImage
    /\ result = NoImage
    /\ calls = << >>
    /\ curve = SingleCurve("", << >>)
    /\ call = NoCall

Decode == op = "init" /\ ReadAcv

NextDecode == Decode

SpecDecode == InitDecode /\ [][NextDecode]_vars

----------------------------------------------------------------------------
(* SpecProcess: a CurveSet filled by add(), applied to images *)

\* a curve whose delegate was built before it was added
Built(name, pts, mode) == interpolate(SingleCurve(name, pts), mode).curve

CurveInvert == Built("invert", << << 0, 255 >>, << 255, 0 >> >>, "LINEAR")

CurveNarrow == Built("narrow", << << 10, 10 >>, << 200, 200 >> >>, "LINEAR")

ProcessPool == { CurveA, CurveInvert, CurveNarrow }

ProcessImages ==
    { GrayImage, MonoImage, IntImage, GrayAlphaImage, RgbImage, RgbaImage }

InitProcess ==
    /\ fs = NoFile
    /\ cs = NewCurveSet("None")
    /\ op = "init"
    /\ outcome = "ok"
    /\ written = NothingWritten
    /\ whole = << >>
    /\ image = NoImage
    /\ result = NoImage
    /\ calls = << >>
    /\ curve = SingleCurve("", << >>)
    /\ call = NoCall

AddCurve == \E c \in ProcessPool : Add(c, MaxSet)

ProcessImage == \E img \in ProcessImages : Process(img)

NextProcess == AddCurve \/ ProcessImage

SpecProcess == InitProcess /\ [][NextProcess]_vars

----------------------------------------------------------------------------
(* SpecCurve: one SingleCurve, mutated through the list methods it         *)
(* inherits, interpolated and called                                       *)

CurvePoints == { << 50, 10 >>, << 200, 90 >> }

CallValues == { 0, 100, 255 }

AllModes == { InterpolateModes[i] : i \in 1..Len(InterpolateModes) } \cup { "None" }

\* list.insert(i, p), i counted from 0
list_insert(pts, i, p) == SubSeq(pts, 1, i) \o << p >> \o SubSeq(pts, i + 1, Len(pts))

\* list.remove(p): the first occurrence
list_remove(pts, p) ==
    LET i == CHOOSE k \in 1..Len(pts) : pts[k] = p /\ \A j \in 1..(k - 1) : pts[j] # p
    IN  SubSeq(pts, 1, i - 1) \o SubSeq(pts, i + 1, Len(pts))

InitCurve ==
    /\ fs = NoFile
    /\ cs = NewCurveSet("None")
    /\ op = "init"
    /\ outcome = "ok"
    /\ written = NothingWritten
    /\ whole = << >>
    /\ image = NoImage
    /\ result = NoImage
    /\ calls = << >>
    /\ curve = SingleCurve("composite", << >>)
    /\ call = NoCall

\* curve.append(p): list.append, the delegate attribute is left as it is
CurveAppend(p) ==
    /\ Len(curve.pts) < MaxPts
    /\ curve' = [curve EXCEPT !.pts = Append(curve.pts, p)]
    /\ op' = "append"
    /\ outcome' = "ok"
    /\ call' = NoCall
    /\ UNCHANGED << fs, cs, written, whole, image, result, calls >>

\* curve.insert(i, p)
CurveInsert(i, p) ==
    /\ Len(curve.pts) < MaxPts
    /\ curve' = [curve EXCEPT !.pts = list_insert(curve.pts, i, p)]
    /\ op' = "insert"
    /\ outcome' = "ok"
    /\ call' = NoCall
    /\ UNCHANGED << fs, cs, written, whole, image, result, calls >>

\* curve.remove(p): ValueError when p is not in the list
CurveRemove(p) ==
    /\ curve' = IF p \in { curve.pts[k] : k \in 1..Len(curve.pts) }
                  THEN [curve EXCEPT !.pts = list_remove(curve.pts, p)]
                  ELSE curve
    /\ op' = "remove"
    /\ outcome' = IF p \in { curve.pts[k] : k \in 1..Len(curve.pts) }
                    THEN "ok" ELSE "ValueError"
    /\ call' = NoCall
    /\ UNCHANGED << fs, cs, written, whole, image, result, calls >>

\* curve.interpolate(mode)
CurveInterpolate(mode) ==
    LET b == interpolate(curve, mode) IN
    /\ curve' = b.curve
    /\ op' = "interpolate"
    /\ outcome' = b.err
    /\ call' = NoCall
    /\ UNCHANGED << fs, cs, written, whole, image, result, calls >>

\* curve(v)
CurveCall(v) ==
    LET r == Call(curve, v) IN
    /\ curve' = r.curve
    /\ op' = "call"
    /\ outcome' = r.err
    /\ call' = [done |-> TRUE, err |-> r.err, used |-> r.val, at |-> v, pts |-> curve.pts]
    /\ UNCHANGED << fs, cs, written, whole, image, result, calls >>

AppendStep == \E p \in CurvePoints : CurveAppend(p)

InsertStep == \E p \in CurvePoints : \E i \in 0..Len(curve.pts) : CurveInsert(i, p)

RemoveStep == \E p \in CurvePoints : CurveRemove(p)

InterpolateStep == \E m \in AllModes : CurveInterpolate(m)

CallStep == \E v \in CallValues : CurveCall(v)

NextCurve == AppendStep \/ InsertStep \/ RemoveStep \/ InterpolateStep \/ CallStep

SpecCurve == InitCurve /\ [][NextCurve]_vars

----------------------------------------------------------------------------
(* The claims *)

\* the sets the round-trip property speaks of: 1 to 4 curves of 2 to 14
\* points each, every coordinate a signed 16-bit integer
InRoundTripRange(lists) ==
    /\ Len(lists) \in 1..4
    /\ \A i \in 1..Len(lists) :
          /\ Len(lists[i]) \in 2..14
          /\ \A k \in 1..Len(lists[i]) :
                lists[i][k][1] \in Int16 /\ lists[i][k][2] \in Int16

\* C1: decoding the file a CurveSet in the round-trip range was encoded to
\* (constructing a CurveSet from it) succeeds and yields the same number of
\* curves and, curve by curve, the same (x, y) points in the same order.
C1_RoundTrip ==
    ( /\ op = "construct"
      /\ written.valid
      /\ written.count = Len(written.curves)
      /\ InRoundTripRange(written.curves) )
    => ( /\ outcome = "ok"
         /\ cs.count = Len(written.curves)
         /\ PointsOf(cs.curves) = written.curves )

\* What does hold of the codec: a decode that completes returns what was
\* encoded (the decode itself can fail while building the interpolators).
RoundTripWhenDecoded ==
    ( /\ op = "construct"
      /\ outcome = "ok"
      /\ written.valid
      /\ written.count = Len(written.curves)
      /\ InRoundTripRange(written.curves) )
    => ( /\ cs.count = Len(written.curves)
         /\ PointsOf(cs.curves) = written.curves )

\* C2: an evaluation of a Curve uses an interpolator built from the points
\* the Curve holds when it is evaluated, whatever appends, inserts and
\* removes came before.
C2_NoStaleEvaluation ==
    (call.done /\ call.err = "ok") => call.used.pts = call.pts

\* C3: evaluating a built curve at a pixel value 0..255 outside
\* [min(x), max(x)] of its points returns a value, in every mode.
C3_NoRaiseOutOfDomain ==
    ( /\ call.done
      /\ curve.delegate.built
      /\ MinX(curve.delegate.pts) < MaxX(curve.delegate.pts)
      /\ call.at \in 0..255
      /\ (call.at < MinX(curve.delegate.pts) \/ call.at > MaxX(curve.delegate.pts)) )
    => call.err = "ok"

\* the image process() splits: the operand, converted to RGB when it is not
RgbOperand(img) == IF img.mode = "RGB" THEN img ELSE convert(img, "RGB")

\* band values looked up through the delegate of curve c
Through(c, band) == [k \in 1..Len(band) |-> [f |-> c.delegate, at |-> band[k]]]

\* C4: the result of process on an RGB image, or on an image first converted
\* to RGB, is an RGB image whose channel i is channel i of the operand
\* through curves[i+1]; curves[1], curves[2], curves[3] are consulted in that
\* order and curves[0] is not.
C4_RgbRouting ==
    ( /\ op = "process"
      /\ outcome = "ok"
      /\ ModeOf(image) \notin { "MONO", "L" } )
    => ( /\ calls = << 1, 2, 3 >>
         /\ Len(cs.curves) >= 4
         /\ result.mode = "RGB"
         /\ Len(result.bands) = 3
         /\ \A i \in 0..2 :
               result.bands[i + 1] =
                  Through(cs.curves[i + 2], RgbOperand(image).bands[i + 1]) )

C4_Witness ==
    /\ op = "process"
    /\ outcome = "ok"
    /\ image = RgbImage
    /\ cs.curves[1].delegate # cs.curves[2].delegate
    /\ cs.curves[2].delegate # cs.curves[3].delegate

\* C5 as stated: the result of process on any single-channel image is a
\* single-channel image of curves[0] applied to every pixel.
C5_SingleChannelRouting ==
    ( /\ op = "process"
      /\ outcome = "ok"
      /\ Len(image.bands) = 1 )
    => ( /\ Len(result.bands) = 1
         /\ result.bands[1] = Through(cs.curves[1], image.bands[1])
         /\ calls = << 0 >> )

\* C5 amended: the result of process on an image of mode "1" or "L" is a
\* single-channel "L" image of curves[0] applied to every pixel, and no
\* other curve is consulted.
C5_GrayRouting ==
    ( /\ op = "process"
      /\ outcome = "ok"
      /\ ModeOf(image) \in { "MONO", "L" } )
    => ( /\ calls = << 0 >>
         /\ result.mode = "L"
         /\ Len(result.bands) = 1
         /\ result.bands[1] = Through(cs.curves[1], image.bands[1]) )

C5_Witness ==
    /\ op = "process"
    /\ outcome = "ok"
    /\ image = MonoImage
    /\ Len(cs.curves) = 1
    /\ result.bands = << << [f |-> cs.curves[1].delegate, at |-> 255] >> >>

\* C6: read_acv on a file that ends before everything its header and its
\* point counts declare fails; it does not complete with fewer curves or
\* points than declared.
C6_TruncationDetected ==
    /\ (op = "read" /\ Len(fs.data) < Len(whole)) =>
          /\ outcome # "ok"
          /\ cs.mode = "None" => outcome = "StructError"
    /\ (op = "read" /\ whole # << >> /\ outcome = "ok") =>
          /\ fs.data = whole
          /\ Len(cs.curves) = DeclaredCount(fs)

C6_Witness ==
    /\ op = "read"
    /\ outcome = "StructError"
    /\ Len(cs.curves) = 1
    /\ Len(fs.data) > 4 + 2 + 4 * Len(cs.curves[1].pts) + 2
    /\ Len(fs.data) < Len(whole)

\* C7: write_acv on a CurveSet whose count is 0 raises and changes neither
\* the file (not created, not truncated) nor the CurveSet.
C7_EmptySetRejected ==
    [][ (WriteAcv /\ cs.count = 0) =>
           (outcome' = "ValueError" /\ fs' = fs /\ cs' = cs) ]_vars

C7_Witness ==
    /\ op = "write"
    /\ outcome = "ValueError"
    /\ cs.count = 0
    /\ fs = EmptyAcv

\* C8: a write_acv that fails leaves the file exactly as it was.
C8_AllOrNothing ==
    [][ (WriteAcv /\ outcome' # "ok") => fs' = fs ]_vars

\* a CurveSet whose every point fits the file format
Writable(s) ==
    \A i \in 1..Len(s.curves) : \A k \in 1..Len(s.curves[i].pts) :
        s.curves[i].pts[k][1] \in Int16 /\ s.curves[i].pts[k][2] \in Int16

\* C9: a Populated CurveSet (count >= 1, of well-formed curves) can be
\* written and can be applied to an image of a recognised mode, an RGB image
\* included; an Empty one cannot be written.
C9_PopulatedUsable ==
    /\ ( /\ op \in { "write", "process" }
         /\ cs.count >= 1
         /\ cs.count = Len(cs.curves)
         /\ Writable(cs) ) => outcome = "ok"
    /\ (op = "write" /\ cs.count = 0) => outcome # "ok"

\* C10: the stored count is the number of curves in the list.
C10_CountInvariant == cs.count = Len(cs.curves)

============================================================================
